---- MODULE Spec2Model ----
(***************************************************************************)
(* A model of the WebSocket ping-pong benchmark: the frame codec of        *)
(* src/src/websocket.rs (create_frame, create_text_frame, parse_frame),    *)
(* the statistics of src/src/stats.rs (RttStats::new and the throughput    *)
(* figures) and the benchmark functions of src/src/benchmark.rs: the five  *)
(* single-connection benchmarks and run_multi_connection_benchmark with    *)
(* its runner tasks.                                                       *)
(*                                                                         *)
(* Bytes are the integers 0..255, byte buffers are sequences of bytes, a   *)
(* u64 in flight is its 8 big-endian bytes (TLC's integers are 32 bits     *)
(* wide); usize is 64 bits wide.  An f64 is the exact rational it stands   *)
(* for, <<numerator, denominator>> in lowest terms: every value the        *)
(* statistics see is a small integer or a quotient of two of them.         *)
(***************************************************************************)
EXTENDS Integers, Sequences, FiniteSets, TLC

VARIABLES
    pc,         \* position of the driver: which call comes next
    call,       \* the function that built frame or figure, "none" before any did
    opcode,     \* create_frame's first argument (a u8)
    payload,    \* create_frame's second argument (a byte sequence)
    mask,       \* the masking key drawn by rand::thread_rng().fill
    frame,      \* the bytes create_frame / create_text_frame returned
    data,       \* the buffer handed to parse_frame
    parsed,     \* what parse_frame returned: Ok(frame), Err(msg) or a panic
    rtts,       \* the sample vector handed to RttStats::new
    stats,      \* the RttStats value built from it
    cpu,        \* the CpuTime the throughput figures read
    figure,     \* the throughput figure last computed
    mode,       \* the benchmark that runs, "none" while none does
    config,     \* its BenchmarkConfig: port and ping_pong_count
    orch,       \* the locals of the benchmark function and what it returned
    runners     \* the tasks run_multi_connection_benchmark spawned, in spawn order

vars == <<pc, call, opcode, payload, mask, frame, data, parsed, rtts, stats, cpu, figure,
          mode, config, orch, runners>>

codecVars == <<opcode, payload, mask, frame, data, parsed>>
statsVars == <<rtts, stats, cpu, figure>>
benchVars == <<mode, config, orch, runners>>

----------------------------------------------------------------------------
(* Bounds of the model.                                                    *)

\* how many masking keys the random source may draw from
NumKeys == 2
\* how many payload contents are tried per payload length
NumFills == 1
\* every payload length up to this one is tried, besides the boundary lengths
MaxShort == 5
\* largest RTT sample, in whole milliseconds
MaxRtt == 2
\* longest sample vector handed to RttStats::new
MaxSamples == 4
\* longest elapsed wall time, in whole milliseconds
MaxElapsed == 2
\* longest raw buffer (not produced by create_frame) handed to parse_frame
MaxRaw == 15
\* largest ping_pong_count a benchmark is configured with
MaxCount == 2
\* how many runner tasks run_multi_connection_benchmark spawns here (the
\* source spawns 50)
client_count == 2
\* longest handshake response the server sends, in bytes
MaxResponse == 4

----------------------------------------------------------------------------
(* Bytes and words.                                                        *)

Byte == 0..255

RECURSIVE XorBits(_, _, _)
XorBits(a, b, n) ==
    IF n = 0 THEN 0
    ELSE (((a % 2) + (b % 2)) % 2) + 2 * XorBits(a \div 2, b \div 2, n - 1)

\* u8 ^ u8, tabulated once
XorTable == [a \in Byte |-> [b \in Byte |-> XorBits(a, b, 8)]]

\* (x & bit) != 0 for a single-bit mask
BitSet(x, bit) == (x \div bit) % 2 = 1

\* b ^ mask[i % 4]; i is the 0-based index of the byte, m the 4-byte key
\* the mask applied with the index never advancing: b ^ mask[0]
XorMask_key0(b, m, i) == XorTable[b][m[1]]
XorMask(b, m, i) == XorTable[b][m[(i % 4) + 1]]

\* the mask bit left out of the length byte
Or80_missing(x) == x
\* 0x80 | x
Or80(x) == IF BitSet(x, 128) THEN x ELSE x + 128


\* n.to_be_bytes() truncated to its w low bytes (n < 2^31)
RECURSIVE to_be_bytes(_, _)
to_be_bytes(n, w) ==
    IF w = 0 THEN <<>> ELSE Append(to_be_bytes(n \div 256, w - 1), n % 256)

\* data[from..to) of a slice, 0-based as in the source
Slice(s, from, to) == SubSeq(s, from + 1, to)

\* the function f on 1..n as a sequence value
AsSeq(f) == <<>> \o f

----------------------------------------------------------------------------
(* WebSocketFrame::create_frame and create_text_frame.                     *)

PING_MESSAGE == <<80, 73, 78, 71>>

\* the length field with both boundaries one too high
LengthField_le126(len) ==
    IF len <= 126 THEN <<Or80(len % 256)>>
    ELSE IF len <= 65536 THEN <<Or80(126), (len \div 256) % 256, len % 256>>
    ELSE <<Or80(127)>> \o to_be_bytes(len, 8)
\* the length byte and the extended length of create_frame
LengthField(len) ==
    IF len < 126 THEN <<Or80(len % 256)>>
    ELSE IF len < 65536 THEN <<Or80(126), (len \div 256) % 256, len % 256>>
    ELSE <<Or80(127)>> \o to_be_bytes(len, 8)

\* payload.iter().enumerate().map(|(i, &b)| b ^ mask[i % 4])
MaskedPayload(p, m) == AsSeq([i \in 1..Len(p) |-> XorMask(p[i], m, i - 1)])

\* create_frame with the masking key m the random source drew
\* create_frame appending the payload as it is, the XOR forgotten
create_frame_unmasked(op, p, m) == <<op>> \o LengthField(Len(p)) \o m \o p
create_frame(op, p, m) ==
    <<op>> \o LengthField(Len(p)) \o m \o MaskedPayload(p, m)

create_text_frame(p, m) == create_frame(129, p, m)

create_ping_frame(m) == create_text_frame(PING_MESSAGE, m)

----------------------------------------------------------------------------
(* WebSocketFrame::parse_frame.                                            *)

None == <<>>
Some(x) == <<x>>
is_some(o) == Len(o) = 1

Ok(f) == [kind |-> "Ok", val |-> f]
Err(msg) == [kind |-> "Err", val |-> msg]
Panic(msg) == [kind |-> "Panic", val |-> msg]

\* a u64 is its 8 big-endian bytes; one whose 5 high bytes are 0 is below 2^24
U64Small(b) == \A i \in 1..5 : b[i] = 0
U64Nat(b) == (b[6] * 65536) + (b[7] * 256) + b[8]

\* offset + payload_len as usize leaves the 64-bit word (offset <= 14)
AddOverflows(offset, b) ==
    (\A i \in 1..7 : b[i] = 255) /\ b[8] + offset >= 256

\* the declared payload length: <<8 big-endian bytes, offset of what follows>>
DeclaredLength(d) ==
    LET len7 == d[2] % 128
    IN  IF len7 = 126 THEN <<<<0, 0, 0, 0, 0, 0, d[3], d[4]>>, 4>>
        ELSE IF len7 = 127 THEN <<Slice(d, 2, 10), 10>>
        ELSE <<to_be_bytes(len7, 8), 2>>

\* the frame built with the unmasking loop left out: the payload stays as
\* it was on the wire
BuildFrame_wire(d, masked, n, key, offset) ==
    [ fin |-> BitSet(d[1], 128),
      rsv1 |-> BitSet(d[1], 64),
      rsv2 |-> BitSet(d[1], 32),
      rsv3 |-> BitSet(d[1], 16),
      opcode |-> d[1] % 16,
      masked |-> masked,
      payload_len |-> n,
      masking_key |-> key,
      payload |-> Slice(d, offset, offset + n) ]
\* the frame built with the opcode taken under the mask 0x07, not 0x0F
BuildFrame_opcode3(d, masked, n, key, offset) ==
    LET raw == Slice(d, offset, offset + n)
    IN  [ fin |-> BitSet(d[1], 128),
          rsv1 |-> BitSet(d[1], 64),
          rsv2 |-> BitSet(d[1], 32),
          rsv3 |-> BitSet(d[1], 16),
          opcode |-> d[1] % 8,
          masked |-> masked,
          payload_len |-> n,
          masking_key |-> key,
          payload |-> IF is_some(key) THEN MaskedPayload(raw, key[1]) ELSE raw ]
\* the frame parse_frame builds once every length check has passed
BuildFrame(d, masked, n, key, offset) ==
    LET raw == Slice(d, offset, offset + n)
    IN  [ fin |-> BitSet(d[1], 128),
          rsv1 |-> BitSet(d[1], 64),
          rsv2 |-> BitSet(d[1], 32),
          rsv3 |-> BitSet(d[1], 16),
          opcode |-> d[1] % 16,
          masked |-> masked,
          payload_len |-> n,
          masking_key |-> key,
          payload |-> IF is_some(key) THEN MaskedPayload(raw, key[1]) ELSE raw ]

\* parse_frame from the payload bounds check on; checks = overflow checks on
\* (a debug build), off (a release build, where the sum wraps)
ParsePayload(d, masked, lenb, key, offset, checks) ==
    IF AddOverflows(offset, lenb)
    THEN IF checks THEN Panic("attempt to add with overflow")
         ELSE IF Len(d) < (lenb[8] + offset) - 256 THEN Err("Payload incomplete")
         ELSE Panic("capacity overflow")
    ELSE IF ~U64Small(lenb) \/ Len(d) < offset + U64Nat(lenb)
         THEN Err("Payload incomplete")
         ELSE Ok(BuildFrame(d, masked, U64Nat(lenb), key, offset))

\* parse_frame asking for 4 bytes, not 10, before it reads the 64-bit length:
\* the read of data[2..10] then indexes out of bounds and panics
parse_frame_short127(d, checks) ==
    IF Len(d) < 2 THEN Err("Frame too short")
    ELSE LET masked == BitSet(d[2], 128)
             len7 == d[2] % 128
         IN  IF len7 >= 126 /\ Len(d) < 4 THEN Err("Extended length incomplete")
             ELSE IF len7 = 127 /\ Len(d) < 10 THEN Panic("index out of bounds")
             ELSE LET dl == DeclaredLength(d)
                      lenb == dl[1]
                      offset == dl[2]
                  IN  IF masked
                      THEN IF Len(d) < offset + 4 THEN Err("Masking key incomplete")
                           ELSE ParsePayload(d, masked, lenb,
                                             Some(Slice(d, offset, offset + 4)),
                                             offset + 4, checks)
                      ELSE ParsePayload(d, masked, lenb, None, offset, checks)
parse_frame(d, checks) ==
    IF Len(d) < 2 THEN Err("Frame too short")
    ELSE LET masked == BitSet(d[2], 128)
             len7 == d[2] % 128
         IN  IF len7 = 126 /\ Len(d) < 4 THEN Err("Extended length incomplete")
             ELSE IF len7 = 127 /\ Len(d) < 10 THEN Err("Extended length incomplete")
             ELSE LET dl == DeclaredLength(d)
                      lenb == dl[1]
                      offset == dl[2]
                  IN  IF masked
                      THEN IF Len(d) < offset + 4 THEN Err("Masking key incomplete")
                           ELSE ParsePayload(d, masked, lenb,
                                             Some(Slice(d, offset, offset + 4)),
                                             offset + 4, checks)
                      ELSE ParsePayload(d, masked, lenb, None, offset, checks)

----------------------------------------------------------------------------
(* The inputs the driver draws.                                            *)

\* create_frame's opcode argument: every 4-bit opcode
Opcodes == 0..15

\* payload lengths on both sides of the two length-encoding boundaries
PayloadLens == {0, 1, 125, 126, 127, 65535, 65536} \cup 0..MaxShort

\* payload contents: varying bytes, then the constant 0x42 of test_large_frame
Fill(n, f) ==
    AsSeq([i \in 1..n |-> IF f = 1 THEN 66 ELSE ((i * ((2 * f) + 3)) + (f * 89)) % 256])

Payloads == {Fill(n, f) : n \in PayloadLens, f \in 0..(NumFills - 1)}

\* the keys rand::thread_rng().fill(&mut mask) may produce; key 0 is all zero
Key(k) == <<(k * 165) % 256, (k * 90) % 256, (k * 255) % 256, (k * 60) % 256>>
Keys == {Key(k) : k \in 0..(NumKeys - 1)}

\* buffers a peer may send that create_frame did not build: two header bytes
\* then a tail, cut at any length up to MaxRaw
RawFirst == {0, 1, 129, 143, 255}
RawSecond == {0, 1, 3, 125, 126, 127, 128, 129, 131, 253, 254, 255}
RawTail(t, i) == IF t = 0 THEN 0 ELSE IF t = 1 THEN 255 ELSE (i * t) % 256
RawTails == {0, 1, 2, 77}
RawBuffer(b0, b1, t, k) ==
    AsSeq([i \in 1..k |-> IF i = 1 THEN b0 ELSE IF i = 2 THEN b1 ELSE RawTail(t, i)])
RawBuffers ==
    {RawBuffer(b0, b1, t, k) :
        b0 \in RawFirst, b1 \in RawSecond, t \in RawTails, k \in 0..MaxRaw}

NoResult == [kind |-> "None", val |-> ""]
NoStats == [count |-> 0, avg |-> <<0, 1>>, median |-> <<0, 1>>,
            min |-> <<0, 1>>, max |-> <<0, 1>>, total_time |-> <<0, 1>>]
NoCpu == [wall_time |-> <<0, 1>>]

\* no benchmark runs: the codec and the statistics are driven on their own
NoConfig == [port |-> 0, ping_pong_count |-> 0]
NoOutcome == [op |-> "none", kind |-> "none", data |-> <<>>]
NoOrch ==
    [k |-> 0, i |-> 0, last |-> NoOutcome, response |-> <<>>,
     udp_port |-> 0, remote |-> -1, result |-> NoResult]
BenchIdle ==
    /\ mode = "none"
    /\ config = NoConfig
    /\ orch = NoOrch
    /\ runners = <<>>

----------------------------------------------------------------------------
(* The codec driver: build a frame and parse it back, or parse a buffer    *)
(* that came from the peer.                                                *)

InitCodec ==
    /\ \/ /\ pc = "start"
          /\ opcode \in Opcodes
          /\ payload \in Payloads
          /\ data = <<>>
       \/ /\ pc = "start_text"
          /\ opcode = 129
          /\ payload \in Payloads
          /\ data = <<>>
       \/ /\ pc = "received"
          /\ opcode = 0
          /\ payload = <<>>
          /\ data \in RawBuffers
    /\ call = "none"
    /\ mask = <<>>
    /\ frame = <<>>
    /\ parsed = NoResult
    /\ rtts = <<>>
    /\ stats = NoStats
    /\ cpu = NoCpu
    /\ figure = <<0, 1>>
    /\ BenchIdle

\* WebSocketFrame::create_frame(opcode, payload)
CreateFrame ==
    /\ pc = "start"
    /\ \E m \in Keys :
          /\ mask' = m
          /\ frame' = create_frame(opcode, payload, m)
    /\ call' = "create_frame"
    /\ pc' = "created"
    /\ UNCHANGED <<opcode, payload, data, parsed, statsVars, benchVars>>

\* WebSocketFrame::create_text_frame(payload)
CreateTextFrame ==
    /\ pc = "start_text"
    /\ \E m \in Keys :
          /\ mask' = m
          /\ frame' = create_text_frame(payload, m)
    /\ call' = "create_text_frame"
    /\ pc' = "created"
    /\ UNCHANGED <<opcode, payload, data, parsed, statsVars, benchVars>>

\* WebSocketFrame::parse_frame(&frame_data) on the frame just built
ParseCreated ==
    /\ pc = "created"
    /\ data' = frame
    /\ \E checks \in BOOLEAN : parsed' = parse_frame(frame, checks)
    /\ pc' = "parsed"
    /\ UNCHANGED <<call, opcode, payload, mask, frame, statsVars, benchVars>>

\* WebSocketFrame::parse_frame(&data) on a buffer from the peer
ParseReceived ==
    /\ pc = "received"
    /\ \E checks \in BOOLEAN : parsed' = parse_frame(data, checks)
    /\ pc' = "parsed"
    /\ UNCHANGED <<call, opcode, payload, mask, frame, data, statsVars, benchVars>>

NextCodec == CreateFrame \/ CreateTextFrame \/ ParseCreated \/ ParseReceived

SpecCodec == InitCodec /\ [][NextCodec]_vars

----------------------------------------------------------------------------
(* Properties of the codec.                                                *)

\* the value of a big-endian byte string (below 2^31)
RECURSIVE BigEndian(_)
BigEndian(s) ==
    IF s = <<>> THEN 0 ELSE (BigEndian(SubSeq(s, 1, Len(s) - 1)) * 256) + s[Len(s)]

\* the header length the wire format gives a payload of n bytes
HeaderLen(n) == IF n < 126 THEN 2 ELSE IF n < 65536 THEN 4 ELSE 10

\* C1: round trip.  For every 4-bit opcode and every payload of a boundary
\* length, parse_frame(create_frame(opcode, payload)) succeeds and returns
\* the payload and the opcode that went in, whatever key was drawn.
C1_RoundTrip ==
    (pc = "parsed" /\ call = "create_frame") =>
        /\ parsed.kind = "Ok"
        /\ parsed.val.payload = payload
        /\ parsed.val.opcode = opcode

C1_Witness ==
    /\ pc = "parsed"
    /\ call = "create_frame"
    /\ opcode = 15
    /\ Len(payload) = 126
    /\ mask # <<0, 0, 0, 0>>
    /\ parsed.kind = "Ok"
    /\ frame[9] # payload[1]
    /\ parsed.val.payload = payload

\* C2: the first byte create_frame returns has the FIN bit set, the three
\* reserved bits clear and the opcode in its low nibble, for every 4-bit
\* opcode.
C2_FirstByte ==
    (pc = "created" /\ call = "create_frame" /\ opcode \in 0..15) =>
        /\ BitSet(frame[1], 128)
        /\ ~BitSet(frame[1], 64)
        /\ ~BitSet(frame[1], 32)
        /\ ~BitSet(frame[1], 16)
        /\ frame[1] % 16 = opcode

\* C3: create_text_frame(payload) returns the bytes create_frame(1, payload)
\* returns with the same masking key.
C3_TextIsOpcode1 ==
    (pc = "created" /\ call = "create_text_frame") =>
        frame = create_frame(1, payload, mask)

\* C4: every frame create_frame produces has the mask bit 0x80 set in
\* byte 1, for any opcode and any payload length.
C4_MaskBit ==
    pc = "created" => BitSet(frame[2], 128)

C4_Witness ==
    /\ pc = "created"
    /\ call = "create_frame"
    /\ Len(payload) = 126
    /\ frame[2] = 254

\* C5: the length field.  Below 126 the low 7 bits of byte 1 are the length
\* and the key follows at once; from 126 to 65535 they are 126 and bytes 2..3
\* hold the length big-endian; from 65536 on they are 127 and bytes 2..9 hold
\* it big-endian.
C5_LengthField ==
    pc = "created" =>
        LET n == Len(payload)
        IN  /\ n < 126 =>
                /\ frame[2] % 128 = n
                /\ Len(frame) = 2 + 4 + n
            /\ (126 <= n /\ n < 65536) =>
                /\ frame[2] % 128 = 126
                /\ BigEndian(SubSeq(frame, 3, 4)) = n
                /\ Len(frame) = 4 + 4 + n
            /\ n >= 65536 =>
                /\ frame[2] % 128 = 127
                /\ BigEndian(SubSeq(frame, 3, 10)) = n
                /\ Len(frame) = 10 + 4 + n

C5_Witness ==
    /\ pc = "created"
    /\ Len(payload) = 126
    /\ frame[2] % 128 = 126
    /\ frame[3] = 0
    /\ frame[4] = 126
    /\ Len(frame) = 134

\* C6: the wire layout.  Right after the length field come the 4 key bytes,
\* then payload.len() bytes, byte i being payload[i] XOR key[i mod 4]; the
\* frame is header + 4 + payload.len() bytes long and nothing follows.
C6_WireLayout ==
    pc = "created" =>
        LET n == Len(payload)
            h == HeaderLen(n)
        IN  /\ Len(frame) = h + 4 + n
            /\ SubSeq(frame, h + 1, h + 4) = mask
            /\ \A i \in 0..(n - 1) :
                  frame[h + 4 + i + 1] = XorTable[payload[i + 1]][mask[(i % 4) + 1]]

C6_Witness ==
    /\ pc = "created"
    /\ Len(payload) = 126
    /\ mask # <<0, 0, 0, 0>>
    /\ frame[8 + 6] # payload[6]
    /\ frame[8 + 6] = XorTable[payload[6]][mask[2]]

\* C7: parse_frame on fewer than 2 bytes fails with 'Frame too short'; on a
\* length byte of 126 and fewer than 4 bytes, or of 127 and fewer than 10
\* bytes, it fails with 'Extended length incomplete'; no frame is returned.
C7_ShortBuffers ==
    pc = "parsed" =>
        /\ Len(data) < 2 => parsed = Err("Frame too short")
        /\ (Len(data) >= 2 /\ data[2] % 128 = 126 /\ Len(data) < 4) =>
              parsed = Err("Extended length incomplete")
        /\ (Len(data) >= 2 /\ data[2] % 128 = 127 /\ Len(data) < 10) =>
              parsed = Err("Extended length incomplete")

C7_Witness ==
    /\ pc = "parsed"
    /\ Len(data) = 9
    /\ data[2] = 255
    /\ parsed = Err("Extended length incomplete")

----------------------------------------------------------------------------
(* f64 values as exact rationals <<numerator, denominator>>; <<0, 0>> is   *)
(* NaN.                                                                    *)

RECURSIVE GCD(_, _)
GCD(a, b) == IF b = 0 THEN a ELSE GCD(b, a % b)

Rat(n, d) == LET g == GCD(n, d) IN <<n \div g, d \div g>>
Zero == <<0, 1>>
NaN == <<0, 0>>
RatDiv(a, b) == Rat(a[1] * b[2], a[2] * b[1])
RatLe(a, b) == a[1] * b[2] <= b[1] * a[2]
RatPos(a) == a[1] > 0 /\ a[2] > 0

----------------------------------------------------------------------------
(* RttStats::new, calculate_throughput, print_cpu_time (src/src/stats.rs)  *)
(* and the figure of run_multi_connection_benchmark.  A sample is the      *)
(* whole number of milliseconds start.elapsed().as_millis() as f64 holds.  *)

Front(s) == SubSeq(s, 1, Len(s) - 1)

\* rtts.iter().sum()
RECURSIVE sum(_)
sum(s) == IF s = <<>> THEN 0 ELSE sum(Front(s)) + s[Len(s)]

\* rtts.iter().min_by(partial_cmp): the first of the smallest
RECURSIVE min_by(_)
min_by(s) ==
    IF Len(s) = 1 THEN s[1]
    ELSE LET m == min_by(Front(s)) IN IF s[Len(s)] < m THEN s[Len(s)] ELSE m

\* rtts.iter().max_by(partial_cmp): the last of the largest
RECURSIVE max_by(_)
max_by(s) ==
    IF Len(s) = 1 THEN s[1]
    ELSE LET m == max_by(Front(s)) IN IF s[Len(s)] >= m THEN s[Len(s)] ELSE m

\* x put into the sorted s after every element not above it
RECURSIVE Insert(_, _)
Insert(x, s) ==
    IF s = <<>> THEN <<x>>
    ELSE IF s[Len(s)] <= x THEN Append(s, x)
    ELSE Append(Insert(x, Front(s)), s[Len(s)])

\* sorted.sort_by(partial_cmp): a stable ascending sort
RECURSIVE sort_by(_)
\* the clone left as it came, the sort forgotten
sort_unsorted(s) == s
sort_by(s) ==
    IF s = <<>> THEN <<>>
    ELSE CHOOSE out \in {Insert(s[Len(s)], front) : front \in {sort_by(Front(s))}} : TRUE

\* the median read from the vector as it was given, the sort left out
median_of_unsorted(r) ==
    LET count == Len(r)
    IN  IF count % 2 = 0
        THEN Rat(r[(count \div 2) - 1 + 1] + r[(count \div 2) + 1], 2)
        ELSE Rat(r[(count \div 2) + 1], 1)
\* the median of RttStats::new; the source indexes from 0
median_of(r) ==
    LET count == Len(r)
        sorted == sort_by(r)
    IN  IF count % 2 = 0
        THEN Rat(sorted[(count \div 2) - 1 + 1] + sorted[(count \div 2) + 1], 2)
        ELSE Rat(sorted[(count \div 2) + 1], 1)

\* RttStats::new with the count > 0 test left out: 0.0 / 0.0 is NaN
RttStats_new_unguarded(r) ==
    [ count |-> Len(r),
      avg |-> IF Len(r) > 0 THEN Rat(sum(r), Len(r)) ELSE NaN,
      median |-> IF Len(r) > 0 THEN median_of(r) ELSE NaN,
      min |-> IF Len(r) > 0 THEN Rat(min_by(r), 1) ELSE NaN,
      max |-> IF Len(r) > 0 THEN Rat(max_by(r), 1) ELSE NaN,
      total_time |-> Zero ]
RttStats_new(r) ==
    LET count == Len(r)
    IN  IF count > 0
        THEN [ count |-> count,
               avg |-> Rat(sum(r), count),
               median |-> median_of(r),
               min |-> Rat(min_by(r), 1),
               max |-> Rat(max_by(r), 1),
               total_time |-> Zero ]
        ELSE [ count |-> count, avg |-> Zero, median |-> Zero,
               min |-> Zero, max |-> Zero, total_time |-> Zero ]

\* RttStats::calculate_throughput
calculate_throughput(st) ==
    IF RatPos(st.total_time)
    THEN RatDiv(Rat(st.count * 2, 1), st.total_time)
    ELSE Zero

\* msg_per_sec of RttStats::print_cpu_time(cpu, ping_pong_count)
\* msg_per_sec counting one message for a ping-pong
msg_per_sec_single(c, ping_pong_count) ==
    IF RatPos(c.wall_time) THEN RatDiv(Rat(ping_pong_count, 1), c.wall_time) ELSE Zero
msg_per_sec(c, ping_pong_count) ==
    IF RatPos(c.wall_time)
    THEN RatDiv(Rat(ping_pong_count * 2, 1), c.wall_time)
    ELSE Zero

\* throughput of run_multi_connection_benchmark
multi_throughput(c, st) ==
    IF RatPos(c.wall_time) THEN RatDiv(Rat(st.count, 1), c.wall_time) ELSE Zero

\* self.start_time.elapsed().as_secs_f64(), the elapsed time in milliseconds
as_secs_f64(ms) == Rat(ms, 1000)

\* the sample vectors: every vector of up to MaxSamples RTTs of 0..MaxRtt ms,
\* and the two vectors of the unit tests
RECURSIVE Vectors(_)
Vectors(n) ==
    IF n = 0 THEN {<<>>}
    ELSE LET shorter == Vectors(n - 1)
         IN  shorter \cup {Append(v, x) : v \in {w \in shorter : Len(w) = n - 1},
                                          x \in 0..MaxRtt}
TestVectors == {<<10, 20, 30, 40, 50>>, <<10, 20, 30, 40>>}
SampleVectors == Vectors(MaxSamples) \cup TestVectors

InitStats ==
    /\ pc = "running"
    /\ call = "none"
    /\ opcode = 0
    /\ payload = <<>>
    /\ mask = <<>>
    /\ frame = <<>>
    /\ data = <<>>
    /\ parsed = NoResult
    /\ rtts \in SampleVectors
    /\ stats = NoStats
    /\ cpu = NoCpu
    /\ figure = Zero
    /\ BenchIdle

\* cpu.stop() once the loop of a benchmark has ended
CpuStop ==
    /\ pc = "running"
    /\ \E ms \in 0..MaxElapsed : cpu' = [wall_time |-> as_secs_f64(ms)]
    /\ pc' = "stopped"
    /\ UNCHANGED <<call, codecVars, benchVars, rtts, stats, figure>>

\* RttStats::new(rtts)
New ==
    /\ pc = "stopped"
    /\ stats' = RttStats_new(rtts)
    /\ pc' = "built"
    /\ UNCHANGED <<call, codecVars, benchVars, rtts, cpu, figure>>

\* a caller stores a duration in the public field total_time
SetTotalTime ==
    /\ pc = "built"
    /\ stats.total_time = Zero
    /\ \E ms \in 1..MaxElapsed :
          stats' = [stats EXCEPT !.total_time = as_secs_f64(ms)]
    /\ UNCHANGED <<pc, call, codecVars, benchVars, rtts, cpu, figure>>

\* stats.calculate_throughput()
CalculateThroughput ==
    /\ pc = "built"
    /\ figure' = calculate_throughput(stats)
    /\ call' = "calculate_throughput"
    /\ pc' = "reported"
    /\ UNCHANGED <<codecVars, benchVars, rtts, stats, cpu>>

\* RttStats::print_cpu_time(&cpu, stats.count), as every single-connection
\* benchmark calls it
PrintCpuTime ==
    /\ pc = "built"
    /\ figure' = msg_per_sec(cpu, stats.count)
    /\ call' = "print_cpu_time"
    /\ pc' = "reported"
    /\ UNCHANGED <<codecVars, benchVars, rtts, stats, cpu>>

\* the throughput of run_multi_connection_benchmark, computed only when
\* all_rtts is not empty
MultiThroughput ==
    /\ pc = "built"
    /\ rtts # <<>>
    /\ figure' = multi_throughput(cpu, stats)
    /\ call' = "run_multi_connection_benchmark"
    /\ pc' = "reported"
    /\ UNCHANGED <<codecVars, benchVars, rtts, stats, cpu>>

NextStats ==
    CpuStop \/ New \/ SetTotalTime \/ CalculateThroughput \/ PrintCpuTime
        \/ MultiThroughput

SpecStats == InitStats /\ [][NextStats]_vars


----------------------------------------------------------------------------
(* Properties of the statistics.                                           *)

\* how many samples of s are below v, and how many are not above it
Below(s, v) == Cardinality({i \in 1..Len(s) : s[i] < v})
AtMost(s, v) == Cardinality({i \in 1..Len(s) : s[i] <= v})

\* the r-th smallest sample of s (r from 1), found by counting, not sorting
OrderStat(s, r) ==
    CHOOSE v \in {s[i] : i \in 1..Len(s)} :
        /\ Below(s, v) < r
        /\ r <= AtMost(s, v)

\* C8: RttStats::new on an empty sample vector returns count, avg, median,
\* min and max all 0.
C8_EmptyStats ==
    (pc \in {"built", "reported"} /\ rtts = <<>>) =>
        /\ stats.count = 0
        /\ stats.avg = Zero
        /\ stats.median = Zero
        /\ stats.min = Zero
        /\ stats.max = Zero

C8_Witness ==
    /\ pc = "built"
    /\ rtts = <<>>
    /\ stats.count = 0
    /\ stats.avg = Zero

\* C9: on a non-empty vector of whole-millisecond samples RttStats::new
\* returns count = the number of samples, avg = sum / count, min and max the
\* smallest and largest sample, median the middle sorted sample (odd count)
\* or the mean of the two middle ones (even count); so min <= median <= max
\* and min <= avg <= max.
C9_Stats ==
    (pc \in {"built", "reported"} /\ rtts # <<>>) =>
        LET n == Len(rtts)
            k == n \div 2
        IN  /\ stats.count = n
            /\ stats.avg[2] > 0
            /\ stats.avg[1] * n = sum(rtts) * stats.avg[2]
            /\ \E i \in 1..n : stats.min = <<rtts[i], 1>>
            /\ \A i \in 1..n : RatLe(stats.min, <<rtts[i], 1>>)
            /\ \E i \in 1..n : stats.max = <<rtts[i], 1>>
            /\ \A i \in 1..n : RatLe(<<rtts[i], 1>>, stats.max)
            /\ stats.median[2] > 0
            /\ n % 2 = 1 =>
                  stats.median = <<OrderStat(rtts, k + 1), 1>>
            /\ n % 2 = 0 =>
                  stats.median[1] * 2 =
                      (OrderStat(rtts, k) + OrderStat(rtts, k + 1)) * stats.median[2]
            /\ RatLe(stats.min, stats.median)
            /\ RatLe(stats.median, stats.max)
            /\ RatLe(stats.min, stats.avg)
            /\ RatLe(stats.avg, stats.max)

C9_Witness ==
    /\ pc = "built"
    /\ rtts = <<2, 0, 2, 1>>
    /\ stats.count = 4
    /\ stats.avg = <<5, 4>>
    /\ stats.median = <<3, 2>>
    /\ stats.min = <<0, 1>>
    /\ stats.max = <<2, 1>>

\* C10 as stated: every throughput figure is count / wall_time when
\* wall_time > 0 and 0 otherwise, count being the number of RTT samples, in
\* calculate_throughput (over total_time), print_cpu_time and
\* run_multi_connection_benchmark alike.
C10_Original ==
    pc = "reported" =>
        LET t == IF call = "calculate_throughput" THEN stats.total_time
                 ELSE cpu.wall_time
        IN  IF RatPos(t)
            THEN figure[1] * t[1] = Len(rtts) * t[2] * figure[2]
            ELSE figure = Zero

\* C10 as amended: calculate_throughput and print_cpu_time count two
\* messages for a ping-pong, so their figure is 2 * count / time when the
\* time is > 0 and 0 otherwise; the figure of
\* run_multi_connection_benchmark alone is count / wall_time.
C10_Throughput ==
    pc = "reported" =>
        LET t == IF call = "calculate_throughput" THEN stats.total_time
                 ELSE cpu.wall_time
            per == IF call = "run_multi_connection_benchmark" THEN 1 ELSE 2
        IN  IF RatPos(t)
            THEN /\ figure[2] > 0
                 /\ figure[1] * t[1] = per * Len(rtts) * t[2] * figure[2]
            ELSE figure = Zero

C10_Witness ==
    /\ pc = "reported"
    /\ call = "print_cpu_time"
    /\ Len(rtts) = 3
    /\ cpu.wall_time = <<1, 500>>
    /\ figure = <<3000, 1>>

----------------------------------------------------------------------------
(* The single-connection benchmarks of src/src/benchmark.rs:               *)
(* run_openssl_benchmark, run_async_benchmark,                             *)
(* run_basic_tls_benchmark_sync, run_tcp_benchmark and run_udp_benchmark.  *)
(* pc is the position in the function, orch holds its locals: k counts the *)
(* fallible calls of the current stage, i is the loop index, last is the   *)
(* outcome of the I/O call made last.                                      *)

SingleModes == {"openssl", "async", "sync", "tcp", "udp"}
WebSocketModes == {"openssl", "async", "sync", "multi"}

\* the fallible calls before the loop, in program order
SetupOps(m) ==
    CASE m = "sync" -> <<"TcpStream::connect", "set_nodelay", "TlsConnector::build",
                         "TlsConnector::connect", "write_all", "flush", "read">>
      [] m = "tcp" -> <<"TcpStream::connect">>
      [] m = "udp" -> <<"UdpSocket::bind">>
      [] OTHER -> <<"connect_async">>

\* the fallible calls that send one ping, in program order
SendOps(m) ==
    CASE m = "sync" -> <<"write_all", "flush">>
      [] m = "tcp" -> <<"write_all">>
      [] m = "udp" -> <<"send_to">>
      [] OTHER -> <<"send">>

\* the call that waits for the response
RecvOp(m) ==
    CASE m = "sync" -> "read"
      [] m = "tcp" -> "read"
      [] m = "udp" -> "recv"
      [] OTHER -> "next"

Outcome(op, kind, d) == [op |-> op, kind |-> kind, data |-> d]
Failed(out) == out.kind \in {"err", "closed"}

\* every sequence over S of length up to n
RECURSIVE SeqsUpTo(_, _)
SeqsUpTo(S, n) ==
    IF n = 0 THEN {<<>>}
    ELSE LET shorter == SeqsUpTo(S, n - 1)
         IN  shorter \cup {Append(v, x) : v \in {w \in shorter : Len(w) = n - 1}, x \in S}

\* the bytes of a handshake response: '1', '0', line feed, and a byte that
\* is no UTF-8
HandshakeBytes == {49, 48, 10, 255}
HandshakeResponses == SeqsUpTo(HandshakeBytes, MaxResponse)

\* String::from_utf8_lossy on such a response: the code points of the
\* string, U+FFFD for a byte that is no UTF-8
from_utf8_lossy(b) == AsSeq([j \in 1..Len(b) |-> IF b[j] < 128 THEN b[j] ELSE 65533])

\* str::contains
contains(str, pat) ==
    \E j \in 0..(Len(str) - Len(pat)) : SubSeq(str, j + 1, j + Len(pat)) = pat

\* the gate of run_basic_tls_benchmark_sync: response.contains("101")
handshake_ok(response) == contains(from_utf8_lossy(response), <<49, 48, 49>>)

\* a + b on u16: overflow panics where overflow checks are compiled in and
\* wraps where they are not
add_u16(a, b, checks) ==
    IF a + b > 65535
    THEN IF checks THEN Panic("attempt to add with overflow")
         ELSE Ok((a + b) % 65536)
    ELSE Ok(a + b)

\* the responses of the server: a text frame carrying PONG, two buffers
\* parse_frame rejects and one whose declared length is 2^64 - 1
PONG_FRAME == <<129, 4, 80, 79, 78, 71>>
Replies ==
    {PONG_FRAME, <<129>>, <<129, 126, 0>>,
     <<129, 127, 255, 255, 255, 255, 255, 255, 255, 255>>}

\* what the call that waits for the response may yield
RecvOutcomes(m) ==
    LET op == RecvOp(m)
    IN  CASE m \in {"openssl", "async"} ->
                {Outcome(op, "closed", <<>>), Outcome(op, "err", <<>>),
                 Outcome(op, "Text", <<80, 79, 78, 71>>)}
                    \cup {Outcome(op, "Binary", d) : d \in Replies}
          [] m = "multi" ->
                {Outcome(op, "closed", <<>>), Outcome(op, "err", <<>>),
                 Outcome(op, "Text", <<80, 79, 78, 71>>)}
                    \cup {Outcome(op, "Binary", d) : d \in {PONG_FRAME, <<129>>}}
          [] m = "sync" ->
                {Outcome(op, "err", <<>>), Outcome(op, "bytes", <<>>)}
                    \cup {Outcome(op, "bytes", d) : d \in Replies}
          [] OTHER ->
                {Outcome(op, "err", <<>>), Outcome(op, "bytes", <<>>),
                 Outcome(op, "bytes", <<80, 79, 78, 71>>)}

\* the configured ports: the default and the ends of the u16 range
Ports == {0, 8443, 65533, 65534, 65535}

\* for i in 0..config.ping_pong_count
LoopHead(i) == IF i < config.ping_pong_count THEN "send" ELSE "finish"

\* the ? after a fallible call: an error leaves the function at once
Question_swallow(out, next) == next
Question(out, next) == IF Failed(out) THEN "returned" ELSE next

\* whether the iteration that received out pushes a sample; p is what
\* parse_frame returned where the benchmark calls it.  The runner tasks of
\* the multi-connection benchmark push for a Message::Binary alone.
records_parsed(m, out, p) ==
    /\ ~Failed(out)
    /\ CASE m \in {"openssl", "async"} -> out.kind = "Binary" /\ p.kind = "Ok"
         [] m = "sync" -> p.kind = "Ok"
         [] m = "multi" -> out.kind = "Binary"
         [] OTHER -> Len(out.data) > 0
records(m, out, p) ==
    /\ ~Failed(out)
    /\ CASE m \in {"openssl", "async"} -> TRUE
         [] m = "sync" -> p.kind # "Panic"
         [] m = "multi" -> out.kind = "Binary"
         [] OTHER -> Len(out.data) > 0

InitSingle ==
    /\ mode \in SingleModes
    /\ config \in [port : IF mode = "udp" THEN Ports ELSE {8443},
                   ping_pong_count : 0..MaxCount]
    /\ pc = "setup"
    /\ orch = [NoOrch EXCEPT !.k = 1]
    /\ runners = <<>>
    /\ call = "none"
    /\ opcode = 0
    /\ payload = <<>>
    /\ mask = <<>>
    /\ frame = <<>>
    /\ data = <<>>
    /\ parsed = NoResult
    /\ rtts = <<>>
    /\ stats = NoStats
    /\ cpu = NoCpu
    /\ figure = Zero

\* the calls before the loop, one at a time: connect_async, or
\* TcpStream::connect, or UdpSocket::bind, or the TCP connection, the TLS
\* session and the handshake request and response of the sync benchmark
Setup ==
    /\ pc = "setup"
    /\ mode \in SingleModes
    /\ LET ops == SetupOps(mode)
           op == ops[orch.k]
           outs == IF mode = "sync" /\ op = "read"
                   THEN {Outcome(op, "err", <<>>)}
                            \cup {Outcome(op, "response", d) : d \in HandshakeResponses}
                   ELSE {Outcome(op, "ok", <<>>), Outcome(op, "err", <<>>)}
           next == IF orch.k < Len(ops) THEN "setup"
                   ELSE IF mode = "sync" THEN "gate"
                   ELSE IF mode = "udp" THEN "port"
                   ELSE LoopHead(0)
       IN  \E out \in outs :
              /\ pc' = Question(out, next)
              /\ orch' = [orch EXCEPT
                            !.k = IF orch.k < Len(ops) THEN @ + 1 ELSE 1,
                            !.last = out,
                            !.response = out.data,
                            !.result = IF Failed(out) THEN Err(op) ELSE @]
    /\ UNCHANGED <<call, codecVars, statsVars, mode, config, runners>>

\* if !response.contains("101") { return Err(..) } of
\* run_basic_tls_benchmark_sync; response is not read again
Gate ==
    /\ pc = "gate"
    /\ IF handshake_ok(orch.response)
       THEN /\ pc' = LoopHead(0)
            /\ orch' = [orch EXCEPT !.response = <<>>]
       ELSE /\ pc' = "returned"
            /\ orch' = [orch EXCEPT !.result = Err("WebSocket handshake failed")]
    /\ UNCHANGED <<call, codecVars, statsVars, mode, config, runners>>

\* let udp_port = config.port + 2 of run_udp_benchmark
UdpPort ==
    /\ pc = "port"
    /\ \E checks \in BOOLEAN :
          LET r == add_u16(config.port, 2, checks)
          IN  IF r.kind = "Panic"
              THEN /\ pc' = "returned"
                   /\ orch' = [orch EXCEPT !.result = r]
              ELSE /\ pc' = LoopHead(0)
                   /\ orch' = [orch EXCEPT !.udp_port = r.val]
    /\ UNCHANGED <<call, codecVars, statsVars, mode, config, runners>>

\* the calls that send the ping of iteration i, one at a time; the
\* WebSocket benchmarks build the frame first, the UDP benchmark addresses
\* the datagram to udp_port
Send ==
    /\ pc = "send"
    /\ mode \in SingleModes
    /\ LET ops == SendOps(mode)
           op == ops[orch.k]
           builds == orch.k = 1 /\ mode \in WebSocketModes
           next == IF orch.k < Len(ops) THEN "send" ELSE "recv"
       IN  \E kind \in {"ok", "err"}, m \in Keys :
              LET out == Outcome(op, kind, <<>>)
              IN  /\ frame' = IF builds THEN create_text_frame(PING_MESSAGE, m)
                              ELSE frame
                  /\ mask' = IF builds THEN m ELSE mask
                  /\ pc' = Question(out, next)
                  /\ orch' = [orch EXCEPT
                                !.k = IF orch.k < Len(ops) THEN @ + 1 ELSE 1,
                                !.last = out,
                                !.remote = IF op = "send_to" THEN orch.udp_port ELSE @,
                                !.result = IF Failed(out) THEN Err(op) ELSE @]
    /\ UNCHANGED <<call, opcode, payload, data, parsed, statsVars, mode, config, runners>>

\* the wait for the response of iteration i and the rest of the iteration:
\* the WebSocket benchmarks hand the response to parse_frame and drop what
\* it returns, the TCP and UDP benchmarks keep a sample only for n > 0
Receive ==
    /\ pc = "recv"
    /\ mode \in SingleModes
    /\ \E out \in RecvOutcomes(mode), ms \in 0..MaxRtt, checks \in BOOLEAN :
          LET parses == \/ mode \in {"openssl", "async"} /\ out.kind = "Binary"
                        \/ mode = "sync" /\ out.kind = "bytes"
              p == IF parses THEN parse_frame(out.data, checks) ELSE parsed
              panics == parses /\ p.kind = "Panic"
              pushes == records(mode, out, p)
          IN  /\ rtts' = IF pushes THEN Append(rtts, ms) ELSE rtts
              /\ parsed' = p
              /\ data' = IF parses THEN out.data ELSE data
              /\ pc' = IF panics THEN "returned"
                       ELSE Question(out, LoopHead(orch.i + 1))
              /\ orch' = [orch EXCEPT
                            !.i = IF Failed(out) \/ panics THEN @ ELSE @ + 1,
                            !.last = out,
                            !.result = IF panics THEN p
                                       ELSE IF Failed(out) THEN Err(out.op)
                                       ELSE @]
    /\ UNCHANGED <<call, opcode, payload, mask, frame, stats, cpu, figure,
                   mode, config, runners>>

\* after the loop: cpu.stop(), RttStats::new(rtts.clone()),
\* RttStats::print_cpu_time(&cpu, stats.count) and Ok(())
Finish ==
    /\ pc = "finish"
    /\ mode \in SingleModes
    /\ \E ms \in 0..MaxElapsed :
          LET stopped == [wall_time |-> as_secs_f64(ms)]
              built == RttStats_new(rtts)
          IN  /\ cpu' = stopped
              /\ stats' = built
              /\ figure' = msg_per_sec(stopped, built.count)
    /\ call' = "print_cpu_time"
    /\ pc' = "returned"
    /\ orch' = [orch EXCEPT !.result = Ok(<<>>)]
    /\ UNCHANGED <<codecVars, rtts, mode, config, runners>>

NextSingle == Setup \/ Gate \/ UdpPort \/ Send \/ Receive \/ Finish

SpecSingle == InitSingle /\ [][NextSingle]_vars

----------------------------------------------------------------------------
(* run_multi_connection_benchmark: the function spawns client_count runner *)
(* tasks, joins them in spawn order and reduces what they returned.        *)
(* runners[r] is the task spawned r-th: st is its position, i its loop     *)
(* index, local_rtts its sample vector.                                    *)

Runners == 1..client_count
NoRunner == [st |-> "unspawned", i |-> 0, local_rtts |-> <<>>]
Terminal == {"done", "failed", "aborted"}

\* start.elapsed().as_millis() in iteration i of runner r: every reading
\* differs from every other, so that a sample shows where it was taken
Readings(r, i) == {10 * r + i}

\* for _ in 0..count of a runner task, then Some(local_rtts)
RunnerLoopHead_inclusive(i) == IF i <= config.ping_pong_count THEN "send" ELSE "done"
RunnerLoopHead(i) == IF i < config.ping_pong_count THEN "send" ELSE "done"

\* an iteration that pushed no sample is followed by the next one
after_skip_retry(i) == i
after_skip(i) == i + 1

\* handle.await completes once the task has terminated
completes_early(h) == TRUE
completes(h) == h.st \in Terminal

\* if let Ok(Some(rtts)) = handle.await { all_rtts.extend(rtts) }
extend_any(all, h) == all \o h.local_rtts \o (IF h.st = "failed" THEN <<0>> ELSE <<>>)
\* the samples of a task put in front of those already gathered
extend_front(all, h) == IF h.st = "done" THEN h.local_rtts \o all ELSE all
extend(all, h) == IF h.st = "done" THEN all \o h.local_rtts ELSE all

\* the task after connect_async returned out: the loop, or None
connected(run, out) ==
    [run EXCEPT !.st = IF Failed(out) THEN "failed" ELSE RunnerLoopHead(0)]

\* the task going on to the next iteration's send without waiting for the
\* response
sent_pipelined(run, out) ==
    [run EXCEPT !.st = RunnerLoopHead(after_skip(run.i)), !.i = after_skip(run.i)]
\* the task after ws_stream.send(..) returned out: the wait for the
\* response, or the next iteration
sent(run, out) ==
    IF Failed(out)
    THEN [run EXCEPT !.st = RunnerLoopHead(after_skip(run.i)), !.i = after_skip(run.i)]
    ELSE [run EXCEPT !.st = "recv"]

\* the task after ws_stream.next() returned out, ms after start: the push
\* for a Message::Binary, and the next iteration
received(run, out, ms) ==
    IF records("multi", out, NoResult)
    THEN [run EXCEPT !.st = RunnerLoopHead(run.i + 1), !.i = run.i + 1,
                     !.local_rtts = Append(@, ms)]
    ELSE [run EXCEPT !.st = RunnerLoopHead(after_skip(run.i)), !.i = after_skip(run.i)]

\* what run_multi_connection_benchmark returns, whatever its tasks did
multi_result_strict(rs) ==
    IF \E r \in DOMAIN rs : rs[r].st # "done" THEN Err("runner failed") ELSE Ok(<<>>)
multi_result(rs) == Ok(<<>>)

InitMulti ==
    /\ mode = "multi"
    /\ config \in [port : {8443}, ping_pong_count : 0..MaxCount]
    /\ pc = "spawn"
    /\ orch = [NoOrch EXCEPT !.k = 1]
    /\ runners = AsSeq([r \in Runners |-> NoRunner])
    /\ call = "none"
    /\ opcode = 0
    /\ payload = <<>>
    /\ mask = <<>>
    /\ frame = <<>>
    /\ data = <<>>
    /\ parsed = NoResult
    /\ rtts = <<>>
    /\ stats = NoStats
    /\ cpu = NoCpu
    /\ figure = Zero

\* handles.push(tokio::spawn(..)), once per client
Spawn ==
    /\ pc = "spawn"
    /\ runners' = [runners EXCEPT ![orch.k].st = "connecting"]
    /\ pc' = IF orch.k < client_count THEN "spawn" ELSE "join"
    /\ orch' = [orch EXCEPT !.k = IF orch.k < client_count THEN @ + 1 ELSE 1]
    /\ UNCHANGED <<call, codecVars, statsVars, mode, config>>

\* match connect_async(&url_clone).await of runner r
RunnerConnect(r) ==
    /\ mode = "multi"
    /\ runners[r].st = "connecting"
    /\ \E kind \in {"ok", "err"} :
          runners' = [runners EXCEPT ![r] = connected(@, Outcome("connect_async", kind, <<>>))]
    /\ UNCHANGED <<pc, call, codecVars, statsVars, mode, config, orch>>

\* ws_stream.send(Message::Binary(ping_frame)).await.is_ok() of runner r
RunnerSend(r) ==
    /\ mode = "multi"
    /\ runners[r].st = "send"
    /\ \E kind \in {"ok", "err"} :
          runners' = [runners EXCEPT ![r] = sent(@, Outcome("send", kind, <<>>))]
    /\ UNCHANGED <<pc, call, codecVars, statsVars, mode, config, orch>>

\* ws_stream.next().await of runner r and the push that depends on it
RunnerReceive(r) ==
    /\ mode = "multi"
    /\ runners[r].st = "recv"
    /\ \E out \in RecvOutcomes("multi"), ms \in Readings(r, runners[r].i) :
          runners' = [runners EXCEPT ![r] = received(@, out, ms)]
    /\ UNCHANGED <<pc, call, codecVars, statsVars, mode, config, orch>>

\* the task of runner r panics or is cancelled: its handle yields a
\* JoinError and its vector is dropped
RunnerAbort(r) ==
    /\ mode = "multi"
    /\ runners[r].st \in {"connecting", "send", "recv"}
    /\ runners' = [runners EXCEPT ![r] = [NoRunner EXCEPT !.st = "aborted"]]
    /\ UNCHANGED <<pc, call, codecVars, statsVars, mode, config, orch>>

\* one turn of for handle in handles { .. handle.await .. }
Join ==
    /\ pc = "join"
    /\ completes(runners[orch.k])
    /\ rtts' = extend(rtts, runners[orch.k])
    /\ pc' = IF orch.k < client_count THEN "join" ELSE "finish"
    /\ orch' = [orch EXCEPT !.k = IF orch.k < client_count THEN @ + 1 ELSE 1]
    /\ UNCHANGED <<call, codecVars, stats, cpu, figure, mode, config, runners>>

\* cpu.stop(), the statistics when all_rtts is not empty, and Ok(())
MultiFinish ==
    /\ pc = "finish"
    /\ mode = "multi"
    /\ \E ms \in 0..MaxElapsed :
          LET stopped == [wall_time |-> as_secs_f64(ms)]
              built == RttStats_new(rtts)
          IN  /\ cpu' = stopped
              /\ stats' = IF rtts # <<>> THEN built ELSE stats
              /\ figure' = IF rtts # <<>> THEN multi_throughput(stopped, built)
                            ELSE figure
    /\ call' = IF rtts # <<>> THEN "run_multi_connection_benchmark" ELSE call
    /\ pc' = "returned"
    /\ orch' = [orch EXCEPT !.result = multi_result(runners)]
    /\ UNCHANGED <<codecVars, rtts, mode, config, runners>>

RunnerStep(r) == RunnerConnect(r) \/ RunnerSend(r) \/ RunnerReceive(r)
Orchestrator == Spawn \/ Join \/ MultiFinish

NextMulti ==
    \/ Orchestrator
    \/ \E r \in Runners : RunnerStep(r)
    \/ \E r \in Runners : RunnerAbort(r)

SpecMulti == InitMulti /\ [][NextMulti]_vars

\* every call of a runner completes or reports an error, and the runtime
\* keeps polling the function; nothing obliges a task to abort
SpecMultiFair ==
    /\ SpecMulti
    /\ WF_vars(Orchestrator)
    /\ \A r \in Runners : WF_vars(RunnerStep(r))

\* every benchmark function
InitBench == InitSingle \/ InitMulti
NextBench == NextSingle \/ NextMulti
SpecBench == InitBench /\ [][NextBench]_vars

Init == InitCodec \/ InitStats \/ InitSingle \/ InitMulti
Next == NextCodec \/ NextStats \/ NextSingle \/ NextMulti
Spec == Init /\ [][Next]_vars

----------------------------------------------------------------------------
(* The claims on run_multi_connection_benchmark.                           *)

\* how many samples of s were read by runner r
SamplesOf(r, s) == Cardinality({j \in 1..Len(s) : s[j] \div 10 = r})
\* how many runners failed to connect
FailedCount == Cardinality({r \in Runners : runners[r].st = "failed"})
AllDone == \A r \in Runners : runners[r].st = "done"
Returned == mode = "multi" /\ pc = "returned"

C12_JoinBarrier ==
    (mode = "multi" /\ pc \in {"finish", "returned"}) =>
        \A r \in Runners : runners[r].st \in Terminal

C12_Witness ==
    /\ Returned
    /\ stats.count = MaxCount
    /\ \E r, q \in Runners :
          /\ runners[r].st = "done"
          /\ Len(runners[r].local_rtts) = MaxCount
          /\ runners[q].st \in {"failed", "aborted"}

\* C13: every runner contributes at most ping_pong_count samples, a runner
\* whose connection failed contributes none, and with k connections failed
\* the combined collection holds at most
\* (client_count - k) * ping_pong_count samples.
C13_CountBound ==
    mode = "multi" =>
        /\ \A r \in Runners :
              /\ SamplesOf(r, rtts) <= config.ping_pong_count
              /\ runners[r].st = "failed" => SamplesOf(r, rtts) = 0
        /\ Len(rtts) <= (client_count - FailedCount) * config.ping_pong_count

C13_Witness ==
    /\ Returned
    /\ config.ping_pong_count = MaxCount
    /\ FailedCount = 1
    /\ Len(rtts) = (client_count - 1) * MaxCount

\* C14: when some connections have failed, every runner task still
\* terminates and the function eventually returns, provided every connect,
\* send and receive of the other runners completes or reports an error.
C14_Terminates ==
    (mode = "multi" /\ \E r \in Runners : runners[r].st = "failed")
        ~> (pc = "returned" /\ \A r \in Runners : runners[r].st \in Terminal)

C14_Witness ==
    /\ Returned
    /\ config.ping_pong_count = MaxCount
    /\ runners[1].st = "failed"
    /\ \E r \in Runners :
          /\ runners[r].st = "done"
          /\ Len(runners[r].local_rtts) < MaxCount

\* C15: a step in which one runner connects, fails, skips an iteration or
\* aborts leaves the state of every sibling, its sample sequence included,
\* as it was; a runner's sequence holds its own readings alone; and the
\* function returns Ok(()) whatever the runners did, all of them failing
\* included.
C15_Isolation ==
    [][ /\ \A r \in Runners :
              /\ runners'[r] # runners[r] =>
                    \A q \in Runners \ {r} : runners'[q] = runners[q]
              /\ SamplesOf(r, runners'[r].local_rtts) = Len(runners'[r].local_rtts)
        /\ (mode = "multi" /\ pc' = "returned") => orch'.result = Ok(<<>>) ]_vars

C15_Witness ==
    /\ Returned
    /\ orch.result = Ok(<<>>)
    /\ rtts = <<>>
    /\ \A r \in Runners : runners[r].st \in {"failed", "aborted"}
    /\ \E r \in Runners : runners[r].st = "failed"
    /\ \E r \in Runners : runners[r].st = "aborted"

\* C16: once a send of some iteration fails, the runner attempts no further
\* send or receive: it ends there, with the samples it had collected.
C16_Truncates ==
    [][ \A r \in Runners :
           ( /\ runners[r].st = "send"
             /\ runners'[r] # runners[r]
             /\ runners'[r].st \notin {"recv", "aborted"} )
           => /\ runners'[r].st = "done"
              /\ runners'[r].local_rtts = runners[r].local_rtts ]_vars

----------------------------------------------------------------------------
(* The claims on the single-connection benchmarks.                         *)

\* C17: in the single-connection benchmarks the first connection,
\* handshake, send or receive error makes the function return Err at once:
\* no later call is made and no statistics are computed.
C17_FailFast ==
    mode \in SingleModes =>
        /\ Failed(orch.last) =>
              /\ pc = "returned"
              /\ orch.result = Err(orch.last.op)
        /\ orch.result.kind = "Err" =>
              /\ pc = "returned"
              /\ stats = NoStats
              /\ figure = Zero
              /\ call = "none"
              /\ Len(rtts) <= orch.i

C17_Witness ==
    /\ mode = "tcp"
    /\ pc = "returned"
    /\ orch.last = Outcome("read", "err", <<>>)
    /\ orch.result = Err("read")
    /\ orch.i = 1
    /\ Len(rtts) = 1
    /\ config.ping_pong_count = MaxCount
    /\ stats = NoStats

\* C18: a response that parse_frame rejects is not fatal.  In the
\* single-connection WebSocket benchmarks the iteration that received it
\* has pushed its one sample and the loop goes on; in a runner task of the
\* multi-connection benchmark, whatever Binary message parse_frame would
\* reject, receiving it pushes one sample and leads to the next iteration.
C18_ParseFailure ==
    /\ ( /\ mode \in {"openssl", "async", "sync"}
         /\ orch.last.kind \in {"Binary", "bytes"}
         /\ orch.last.op = RecvOp(mode)
         /\ \E checks \in BOOLEAN : parse_frame(orch.last.data, checks).kind = "Err" )
       => /\ parsed.kind = "Err"
          /\ data = orch.last.data
          /\ orch.i >= 1
          /\ Len(rtts) = orch.i
          /\ \/ pc = LoopHead(orch.i) /\ orch.result = NoResult
             \/ pc = "returned" /\ orch.result = Ok(<<>>)
    /\ mode = "multi" =>
          \A r \in Runners, out \in RecvOutcomes("multi") :
             ( /\ runners[r].st = "recv"
               /\ out.kind = "Binary"
               /\ \E checks \in BOOLEAN : parse_frame(out.data, checks).kind = "Err" )
             => \A ms \in Readings(r, runners[r].i) :
                   LET after == received(runners[r], out, ms)
                   IN  /\ after.local_rtts = Append(runners[r].local_rtts, ms)
                       /\ after.i = runners[r].i + 1
                       /\ after.st = RunnerLoopHead(after.i)

C18_Witness ==
    /\ mode = "sync"
    /\ pc = "send"
    /\ orch.last = Outcome("read", "bytes", <<129, 126, 0>>)
    /\ parsed = Err("Extended length incomplete")
    /\ orch.i = 1
    /\ Len(rtts) = 1

\* the first line of a response: what comes before its first line feed
StatusLine(str) ==
    IF \E j \in 1..Len(str) : str[j] = 10
    THEN SubSeq(str, 1, (CHOOSE j \in 1..Len(str) :
                            str[j] = 10 /\ \A h \in 1..(j - 1) : str[h] # 10) - 1)
    ELSE str

\* C19: run_basic_tls_benchmark_sync starts its loop only if the status
\* line of the handshake response contains 101; for any other response it
\* returns the 'WebSocket handshake failed' error and sends no ping frame.
C19_HandshakeGate ==
    [][ pc = "gate" =>
            IF contains(StatusLine(from_utf8_lossy(orch.response)), <<49, 48, 49>>)
            THEN pc' = LoopHead(0)
            ELSE /\ pc' = "returned"
                 /\ orch'.result = Err("WebSocket handshake failed")
                 /\ frame' = <<>> ]_vars

\* C20: whatever the configured port, run_udp_benchmark sends its
\* datagrams to port + 2.
C20_UdpPort ==
    (mode = "udp" /\ orch.remote # -1) => orch.remote = config.port + 2

----------------------------------------------------------------------------
(* Further claims on parse_frame.                                          *)

\* the length a buffer of at least 2 (4, 10) bytes declares, as a number
\* where it is below 2^24 and as -1 where it is not
DeclaredNat(d) ==
    LET len7 == d[2] % 128
    IN  IF len7 < 126 THEN len7
        ELSE IF len7 = 126 THEN (d[3] * 256) + d[4]
        ELSE IF \A j \in 3..7 : d[j] = 0
             THEN (d[8] * 65536) + (d[9] * 256) + d[10]
             ELSE -1
\* the bytes before the masking key
PrefixLen(d) ==
    LET len7 == d[2] % 128
    IN  IF len7 = 126 THEN 4 ELSE IF len7 = 127 THEN 10 ELSE 2
\* the verdict the four checks give, taken in their order
Verdict(d) ==
    IF Len(d) < 2 THEN "Frame too short"
    ELSE IF Len(d) < PrefixLen(d) THEN "Extended length incomplete"
    ELSE LET key == IF d[2] >= 128 THEN 4 ELSE 0
         IN  IF Len(d) < PrefixLen(d) + key THEN "Masking key incomplete"
             ELSE IF DeclaredNat(d) = -1
                     \/ Len(d) < PrefixLen(d) + key + DeclaredNat(d)
                  THEN "Payload incomplete"
                  ELSE "Ok"

\* C21: parse_frame reports the first failing check in the order too short,
\* extended length incomplete, masking key incomplete, payload incomplete,
\* and succeeds exactly when the buffer holds the header, the key of a
\* masked frame and the declared payload length.
C21_CheckOrder ==
    pc = "parsed" =>
        IF Verdict(data) = "Ok" THEN parsed.kind = "Ok"
        ELSE parsed = Err(Verdict(data))

\* C28: parse_frame is total.  For every buffer, one declaring a 64-bit
\* length up to 2^64 - 1 included, it returns a frame or one of its four
\* errors, and a declared length beyond the bytes that remain yields
\* 'Payload incomplete'.
C28_Total ==
    pc = "parsed" =>
        /\ parsed.kind \in {"Ok", "Err"}
        /\ parsed.kind = "Err" =>
              parsed.val \in {"Frame too short", "Extended length incomplete",
                              "Masking key incomplete", "Payload incomplete"}
        /\ ( /\ Len(data) >= 2
             /\ Len(data) >= PrefixLen(data) + (IF data[2] >= 128 THEN 4 ELSE 0)
             /\ \/ DeclaredNat(data) = -1
                \/ DeclaredNat(data) >
                      Len(data) - PrefixLen(data) - (IF data[2] >= 128 THEN 4 ELSE 0) )
           => parsed = Err("Payload incomplete")

\* C22: every frame parse_frame returns has masking_key.is_some() = masked
\* and payload.len() = payload_len; with the mask bit set, payload byte i is
\* the input byte at offset + i XOR key[i mod 4], the key being the 4 bytes
\* after the length field; without it the payload is the input bytes as
\* they are.
C22_FrameInvariants ==
    (pc = "parsed" /\ parsed.kind = "Ok") =>
        LET f == parsed.val
            n == f.payload_len
            h == PrefixLen(data)
        IN  /\ is_some(f.masking_key) = f.masked
            /\ f.masked = BitSet(data[2], 128)
            /\ Len(f.payload) = n
            /\ n = DeclaredNat(data)
            /\ IF f.masked
               THEN /\ f.masking_key = Some(SubSeq(data, h + 1, h + 4))
                    /\ \A i \in 0..(n - 1) :
                          f.payload[i + 1] =
                              XorTable[data[h + 4 + i + 1]][data[h + (i % 4) + 1]]
               ELSE /\ f.masking_key = None
                    /\ f.payload = SubSeq(data, h + 1, h + n)

C22_Witness ==
    /\ pc = "parsed"
    /\ parsed.kind = "Ok"
    /\ parsed.val.masked
    /\ parsed.val.payload_len = 126
    /\ parsed.val.masking_key # Some(<<0, 0, 0, 0>>)
    /\ parsed.val.payload[6] # data[8 + 6]
    /\ parsed.val.payload[6] = XorTable[data[8 + 6]][data[4 + 2]]


\* the buffer d with its first byte replaced by b
WithFirst(d, b) == <<b>> \o Tail(d)

\* the fields of a returned frame that do not come from byte 0
Body(f) == <<f.masked, f.payload_len, f.masking_key, f.payload>>

\* two results of parse_frame that differ at most in the fields read from
\* byte 0
SameUpToFirst(r1, r2) ==
    IF r1.kind = "Ok" THEN r2.kind = "Ok" /\ Body(r1.val) = Body(r2.val)
    ELSE r1 = r2

\* C23: parse_frame never validates byte 0.  Replacing the first byte of a
\* buffer by any of the 256 values gives, in the same build, the same
\* failure or a frame with the same masked, payload_len, masking_key and
\* payload; the frame's fin, rsv1, rsv2, rsv3 are bits 7, 6, 5, 4 of the
\* byte and its opcode the low nibble.  Stated for the buffers of at most
\* MaxRaw bytes.
C23_FirstByteFree ==
    (pc = "parsed" /\ Len(data) >= 1 /\ Len(data) <= MaxRaw) =>
        \A b \in Byte :
            \E checks \in BOOLEAN :
                LET r == parse_frame(WithFirst(data, b), checks)
                IN  /\ parsed = parse_frame(data, checks)
                    /\ SameUpToFirst(parsed, r)
                    /\ r.kind = "Ok" =>
                          /\ r.val.fin = (b >= 128)
                          /\ r.val.rsv1 = ((b \div 64) % 2 = 1)
                          /\ r.val.rsv2 = ((b \div 32) % 2 = 1)
                          /\ r.val.rsv3 = ((b \div 16) % 2 = 1)
                          /\ r.val.opcode = b % 16

C23_Witness ==
    /\ pc = "parsed"
    /\ Len(data) = 9
    /\ data[1] = 255
    /\ parsed.kind = "Ok"
    /\ parsed.val.masked
    /\ parsed.val.payload_len = 3
    /\ parsed.val.opcode = 15
    /\ parsed.val.rsv1 /\ parsed.val.rsv2 /\ parsed.val.rsv3
    /\ parse_frame(WithFirst(data, 0), TRUE).kind = "Ok"
    /\ parse_frame(WithFirst(data, 0), TRUE).val.opcode = 0
    /\ ~parse_frame(WithFirst(data, 0), TRUE).val.fin


----------------------------------------------------------------------------
(* Further claims on the benchmarks.                                       *)

\* a step of a single-connection benchmark keeps the iterations apart: the
\* loop index moves by one and only out of a receive that completed, a send
\* is followed by the receive of the same iteration, and a sample is
\* appended at the end of rtts by the receive that ends an iteration
SingleInOrder ==
    mode \in SingleModes =>
        /\ orch'.i # orch.i =>
              /\ pc = "recv"
              /\ orch'.i = orch.i + 1
              /\ orch'.last.op = RecvOp(mode)
              /\ ~Failed(orch'.last)
        /\ (pc = "recv" /\ pc' = "send") => (orch'.i = orch.i + 1 /\ orch'.k = 1)
        /\ (pc = "send" /\ pc' # "returned") =>
              /\ pc' \in {"send", "recv"}
              /\ orch'.i = orch.i
              /\ pc' = "send" => orch'.k = orch.k + 1
        /\ rtts' # rtts =>
              /\ pc = "recv"
              /\ Len(rtts) <= orch.i
              /\ Len(rtts') = Len(rtts) + 1
              /\ SubSeq(rtts', 1, Len(rtts)) = rtts

\* the same for a step of runner r of the multi-connection benchmark, unless
\* the task is aborted; a send that failed has no response to wait for
RunnerInOrder(r) ==
    LET run == runners[r]
        after == runners'[r]
    IN  after.st # "aborted" =>
            /\ after.i # run.i =>
                  /\ run.st \in {"send", "recv"}
                  /\ after.i = run.i + 1
            /\ (run.st = "recv" /\ after.st = "send") => after.i = run.i + 1
            /\ (run.st = "send" /\ after.st = "recv") => after.i = run.i
            /\ after.local_rtts # run.local_rtts =>
                  /\ run.st = "recv"
                  /\ after.i = run.i + 1
                  /\ after.local_rtts \in
                        {Append(run.local_rtts, ms) : ms \in Readings(r, run.i)}

\* a runner about to send goes, once the send has succeeded, to the wait
\* for the response of that iteration, and the samples it holds were taken
\* in iterations before the current one, in their order
RunnerOneInFlight(r) ==
    LET run == runners[r]
        s == run.local_rtts
    IN  /\ run.st = "send" =>
              LET after == sent(run, Outcome("send", "ok", <<>>))
              IN  /\ after.st = "recv"
                  /\ after.i = run.i
                  /\ after.local_rtts = s
        /\ \A j \in 1..Len(s) :
              \E i \in 0..(run.i - 1) :
                  /\ s[j] \in Readings(r, i)
                  /\ j < Len(s) => s[j + 1] > s[j]
                  /\ j <= i + 1

RECURSIVE InSpawnOrder(_)
InSpawnOrder(k) ==
    IF k = 0 THEN <<>>
    ELSE InSpawnOrder(k - 1) \o
         (IF runners[k].st = "done" THEN runners[k].local_rtts ELSE <<>>)

\* C25: the fan-in is exact.  Once the join loop is over, the combined
\* collection is the concatenation, in spawn order, of the sample sequences
\* of the runners that returned one: every sample of such a runner is there
\* exactly once, none is duplicated and none is invented.  While the loop
\* runs it holds the sequences of the handles awaited so far.
C25_FanIn ==
    mode = "multi" =>
        /\ pc = "join" => rtts = InSpawnOrder(orch.k - 1)
        /\ pc \in {"finish", "returned"} =>
              /\ rtts = InSpawnOrder(client_count)
              /\ \A j, k \in 1..Len(rtts) : rtts[j] = rtts[k] => j = k
              /\ \A r \in Runners :
                    SamplesOf(r, rtts) =
                        IF runners[r].st = "done" THEN Len(runners[r].local_rtts) ELSE 0

C25_Witness ==
    /\ Returned
    /\ runners[1].st = "done"
    /\ runners[1].local_rtts = <<10, 11>>
    /\ runners[2].st = "done"
    /\ runners[2].local_rtts = <<21>>
    /\ rtts = <<10, 11, 21>>


----------------------------------------------------------------------------
(* A further claim on the statistics.                                      *)

\* the sequence s without its element at position i
Without(s, i) == SubSeq(s, 1, i - 1) \o SubSeq(s, i + 1, Len(s))

\* every ordering of the samples of s
RECURSIVE Perms(_)
Perms(s) ==
    IF s = <<>> THEN {<<>>}
    ELSE UNION {{<<s[i]>> \o q : q \in Perms(Without(s, i))} : i \in 1..Len(s)}

\* C26: RttStats::new gives the same count, avg, median, min and max for
\* every permutation of the same multiset of integer-valued samples.
C26_OrderFree ==
    (pc = "built" /\ stats.total_time = Zero) =>
        \A p \in Perms(rtts) :
            LET other == RttStats_new(p)
            IN  /\ other.count = stats.count
                /\ other.avg = stats.avg
                /\ other.median = stats.median
                /\ other.min = stats.min
                /\ other.max = stats.max

C26_Witness ==
    /\ pc = "built"
    /\ stats.total_time = Zero
    /\ rtts = <<2, 0, 1, 0>>
    /\ <<0, 0, 1, 2>> \in Perms(rtts)
    /\ stats.median = Rat(1, 2)
    /\ stats.min = Zero
    /\ stats.max = Rat(2, 1)
    /\ stats.avg = Rat(3, 4)


----------------------------------------------------------------------------
(* A further claim on the samples.                                         *)

\* C27: one sample per completed round trip.  In every benchmark each
\* iteration whose send and receive both completed without an I/O error has
\* appended exactly one sample, whatever the kind or content of the
\* response, and an iteration whose send or receive failed has appended
\* none: a single-connection benchmark holds as many samples as it has
\* completed iterations, and a runner task that receives any response
\* pushes one sample, and none when the receive fails.  (An iteration in
\* which parse_frame panics does not complete.)
C27_OneSamplePerRoundTrip ==
    /\ (mode \in SingleModes /\ orch.result.kind # "Panic") => Len(rtts) = orch.i
    /\ mode = "multi" =>
          \A r \in Runners, out \in RecvOutcomes("multi") :
             runners[r].st = "recv" =>
                \A ms \in Readings(r, runners[r].i) :
                   received(runners[r], out, ms).local_rtts =
                       IF Failed(out) THEN runners[r].local_rtts
                       ELSE Append(runners[r].local_rtts, ms)


====
